---- MODULE Spec2Model ----
(***************************************************************************)
(* Team-assignment engine of the soccer team generator                      *)
(* (src/js/UIManager.js, class TeamGenerator) and the rating functions of   *)
(* src/js/PlayerManager.js.                                                 *)
(*                                                                          *)
(* Player objects live in a heap (players: reference -> record); teams and  *)
(* formation lines hold references, as the JavaScript arrays do, so a write *)
(* to player.assignedPosition is seen through every alias.                  *)
(*                                                                          *)
(* shuffleArray is a Fisher-Yates shuffle: every permutation of the array   *)
(* is a possible result.  An array that is shuffled and then walked once    *)
(* from the front is modelled by the set of its entries not yet visited;    *)
(* each iteration of the walk takes any one of them.                        *)
(*                                                                          *)
(* Spec runs the engine once, step by step (one loop iteration per step),   *)
(* on a player list and team count drawn by Init, from generateTeams or     *)
(* from regenerateTeams.  SpecLines runs generateTeams on lists of seven     *)
(* players, long enough for a formation line to fill during the draft.      *)
(* SpecSweep runs generateTeams on lists of 13 and 27 players, long enough   *)
(* for a team to fill all its lines and take substitutes; SpecLive is Spec  *)
(* with weak fairness on the steps of the run.                              *)
(* SpecApp starts from the empty application and interleaves the handlers   *)
(* of the player gallery and of the team settings with any number of runs.  *)
(* SpecSizes and SpecRating call the size computations and the rating       *)
(* functions directly on drawn arguments.                                   *)
(***************************************************************************)
EXTENDS Integers, Sequences, FiniteSets, TLC

\* ------------------------------------------------------------------ bounds
MaxPlayers == 5
MaxTeams == 2
MaxTotal == 23
MaxSizeTeams == 4

\* ------------------------------------------------------- program constants
DefenderCap == 4
MidfielderCap == 4
ForwardCap == 3
FallbackRating == 75
GKPenalty == 20
GKPenaltyFloor == 40

GoalkeeperCodes == <<"GK">>
DefenderCodes == <<"CB", "LB", "RB">>
MidfielderCodes == <<"CDM", "CM", "CAM", "LM", "RM">>
ForwardCodes == <<"LW", "RW", "ST">>

\* --------------------------------------------------------------- utilities
Range(s) == {s[i] : i \in 1..Len(s)}

Includes(s, x) == \E i \in 1..Len(s) : s[i] = x

\* Array.prototype.filter on an array of scalars
RECURSIVE Filter(_, _)
Filter(s, keep) ==
    IF s = <<>> THEN <<>>
    ELSE IF Head(s) \in keep THEN <<Head(s)>> \o Filter(Tail(s), keep)
         ELSE Filter(Tail(s), keep)

RECURSIVE SumSeq(_)
SumSeq(s) == IF s = <<>> THEN 0 ELSE Head(s) + SumSeq(Tail(s))

Max2(a, b) == IF a >= b THEN a ELSE b

Min2(a, b) == IF a <= b THEN a ELSE b

\* an absent stat block / a stat block with the given overall (the six
\* sub-ratings are never read by the engine)
NoStats == [present |-> FALSE, overall |-> 0]

Stats(o) == [present |-> TRUE, overall |-> o]

\* ------------------------------------------------------------ size planner
\* the loop of generateTeams: push base + (i < extra ? 1 : 0) for i = 0..n-1
RECURSIVE PushSizes(_, _, _, _, _)
PushSizes(acc, i, numT, base, extra) ==
    IF i < numT
    THEN PushSizes(Append(acc, base + (IF i < extra THEN 1 ELSE 0)),
                   i + 1, numT, base, extra)
    ELSE acc

\* the extra players handed to the last teams
InlineTeamSizes_Mut(totalPlayers, numT) ==
    LET basePlayersPerTeam == totalPlayers \div numT
        extraPlayers == totalPlayers % numT
    IN  [k \in 1..numT |-> basePlayersPerTeam + (IF k > numT - extraPlayers THEN 1 ELSE 0)]

InlineTeamSizes(totalPlayers, numT) ==
    LET basePlayersPerTeam == totalPlayers \div numT
        extraPlayers == totalPlayers % numT
    IN  PushSizes(<<>>, 0, numT, basePlayersPerTeam, extraPlayers)

\* the extra players handed to index <= extra
calculateTeamSizes_Mut(totalPlayers, numT) ==
    LET baseSize == totalPlayers \div numT
        extraPlayers == totalPlayers % numT
    IN  [k \in 1..numT |-> baseSize + (IF k - 1 <= extraPlayers THEN 1 ELSE 0)]

\* calculateTeamSizes: Array.from({length: numTeams}, (_, i) => ...);
\* the array index i (0-based) is position i + 1 of the sequence
calculateTeamSizes(totalPlayers, numT) ==
    LET baseSize == totalPlayers \div numT
        extraPlayers == totalPlayers % numT
    IN  [k \in 1..numT |-> baseSize + (IF k - 1 < extraPlayers THEN 1 ELSE 0)]

\* ---------------------------------------------------------------- ratings
\* the goalkeeper block preferred whatever the preferred position
getPlayerOverallRating_Mut(p) ==
    IF p.gkStats.present THEN p.gkStats.overall
    ELSE IF p.outfieldStats.present THEN p.outfieldStats.overall
    ELSE FallbackRating

getPlayerOverallRating(p) ==
    IF p.gkStats.present /\ p.outfieldStats.present
    THEN IF p.preferredPosition = "GK" THEN p.gkStats.overall
         ELSE p.outfieldStats.overall
    ELSE IF p.gkStats.present THEN p.gkStats.overall
    ELSE IF p.outfieldStats.present THEN p.outfieldStats.overall
    ELSE FallbackRating

\* the penalty applied to every goalkeeper-capable player out of goal
getPlayerRatingForPosition_Mut(p, assignedPosition) ==
    IF assignedPosition = "GK" /\ p.gkStats.present THEN p.gkStats.overall
    ELSE IF p.gkStats.present
         THEN Max2(p.gkStats.overall - GKPenalty, GKPenaltyFloor)
    ELSE IF p.outfieldStats.present THEN p.outfieldStats.overall
    ELSE FallbackRating

getPlayerRatingForPosition(p, assignedPosition) ==
    IF assignedPosition = "GK" /\ p.gkStats.present THEN p.gkStats.overall
    ELSE IF p.outfieldStats.present THEN p.outfieldStats.overall
    ELSE IF p.gkStats.present
         THEN Max2(p.gkStats.overall - GKPenalty, GKPenaltyFloor)
    ELSE FallbackRating

\* (x).toFixed(1) for x = total / count, in tenths: the nearest tenth, the
\* larger one on a tie (a tie is a multiple of 1/4 here, which a double
\* holds exactly for every count below 20)
ToFixed1(total, count) == (20 * total + count) \div (2 * count)

\* ------------------------------------------------------------- comparators
\* Array.prototype.sort is stable; the comparator b - a sorts descending
RECURSIVE InsertDesc(_, _, _)
InsertDesc(s, x, key) ==
    IF s = <<>> THEN <<x>>
    ELSE IF key[Head(s)] >= key[x] THEN <<Head(s)>> \o InsertDesc(Tail(s), x, key)
         ELSE <<x>> \o s

RECURSIVE SortDescFrom(_, _, _)
SortDescFrom(acc, rest, key) ==
    IF rest = <<>> THEN acc
    ELSE SortDescFrom(InsertDesc(acc, Head(rest), key), Tail(rest), key)

\* the comparator a - b sorts ascending
RECURSIVE InsertAsc(_, _, _)
InsertAsc(s, x, key) ==
    IF s = <<>> THEN <<x>>
    ELSE IF key[Head(s)] <= key[x] THEN <<Head(s)>> \o InsertAsc(Tail(s), x, key)
         ELSE <<x>> \o s

RECURSIVE SortAscFrom(_, _, _)
SortAscFrom(acc, rest, key) ==
    IF rest = <<>> THEN acc
    ELSE SortAscFrom(InsertAsc(acc, Head(rest), key), Tail(rest), key)

\* every order shuffleArray can leave an array in
Shuffles(s) ==
    {q \in [1..Len(s) -> Range(s)] : \A x \in Range(s) : \E i \in 1..Len(s) : q[i] = x}

\* the first k entries of a shuffled array whose entries are the set G
FirstOfShuffled(G, k) == {S \in SUBSET G : Cardinality(S) = k}

\* ------------------------------------------------------------------- state
VARIABLES
    players,                \* heap of player objects: reference -> record
    appPlayers,             \* app.players: array of references
    appTeams,               \* app.teams
    teamCount,              \* value of the teamCount control
    playerSelection,        \* value of the playerSelection control
    generateBtnDisabled,    \* .generate-btn disabled
    lastGenerationPlayerCount, \* app.lastGenerationPlayerCount (0 for null)
    pc,                     \* position of the running handler
    caller,                 \* the handler that invoked the engine
    numTeams,               \* createBalancedTeamsWithSizeControl: numTeams
    teams,                  \* ... teams
    sortedPlayers,          \* ... sortedPlayers (references)
    assignedPlayers,        \* ... assignedPlayers (set of player ids)
    currentTeam,            \* ... currentTeam (0-based index)
    direction,              \* ... direction
    preferredGKs,           \* ... preferredGKs not yet visited
    alternativeGKs,         \* ... alternativeGKs not yet visited
    teamOrder,              \* ... teamOrder entries not yet visited (0-based)
    assignmentPool,         \* ... assignmentPool entries not yet visited
    item,                   \* ... pool entry of the running iteration
    attempts,               \* ... attempts
    assigned,               \* ... assigned
    finalRemainingPlayers,  \* ... finalRemainingPlayers not yet visited
    call                    \* a direct call of a pure function and its result

vars == <<players, appPlayers, appTeams, teamCount, playerSelection,
          generateBtnDisabled, lastGenerationPlayerCount, pc, caller, numTeams, teams, sortedPlayers,
          assignedPlayers, currentTeam, direction, preferredGKs,
          alternativeGKs, teamOrder, assignmentPool, item, attempts,
          assigned, finalRemainingPlayers, call>>

appVars == <<appPlayers, appTeams, teamCount, playerSelection,
            generateBtnDisabled, lastGenerationPlayerCount>>

gkVars == <<preferredGKs, alternativeGKs, teamOrder>>

tryVars == <<item, attempts, assigned>>

\* ------------------------------------------------------------ player data
Undefined == "undefined"

NoItem == [player |-> 0, priority |-> "none"]

NoCall == [kind |-> "none"]

\* the shapes of player the form of addPlayer can produce that the runs draw from
PlayerKinds ==
    << [positions |-> <<"GK">>, preferredPosition |-> "GK",
        gkStats |-> Stats(80), outfieldStats |-> NoStats],
       [positions |-> <<"GK", "CB">>, preferredPosition |-> "GK",
        gkStats |-> Stats(90), outfieldStats |-> Stats(78)],
       [positions |-> <<"ST", "GK">>, preferredPosition |-> "ST",
        gkStats |-> Stats(60), outfieldStats |-> Stats(85)],
       [positions |-> <<"CM", "LB", "CB">>, preferredPosition |-> "CM",
        gkStats |-> NoStats, outfieldStats |-> Stats(82)],
       [positions |-> <<"CB">>, preferredPosition |-> "CB",
        gkStats |-> NoStats, outfieldStats |-> Stats(75)],
       [positions |-> <<"ST">>, preferredPosition |-> "ST",
        gkStats |-> NoStats, outfieldStats |-> Stats(70)],
       [positions |-> <<"ST", "CM">>, preferredPosition |-> "ST",
        gkStats |-> NoStats, outfieldStats |-> Stats(84)],
       [positions |-> <<"CM">>, preferredPosition |-> "CM",
        gkStats |-> NoStats, outfieldStats |-> Stats(77)] >>

\* how many players of each kind a list of PlayerLists holds at most
KindCap == <<1, 1, 1, 1, MaxPlayers, 0, 0, 0>>

\* the longest list a regeneration is run on
MaxRegenPlayers == MaxPlayers - 3

\* the player object addPlayer builds (name and the sub-ratings left out)
NewPlayer(id, kind) ==
    [id |-> id,
     positions |-> kind.positions,
     preferredPosition |-> kind.preferredPosition,
     selected |-> TRUE,
     gkStats |-> kind.gkStats,
     outfieldStats |-> kind.outfieldStats,
     assignedPosition |-> Undefined,
     tempRatingAdjustment |-> <<>>]

\* the values (Math.random() - 0.5) * 10 is drawn from
Jitters == {-4, 4}

\* a.tempRatingAdjustment || 0
Adjustment(p) == IF p.tempRatingAdjustment = <<>> THEN 0 ELSE p.tempRatingAdjustment[1]

\* p.positions.some(pos => category.includes(pos))
CanPlay(p, codes) == \E i \in 1..Len(p.positions) : Includes(codes, p.positions[i])

\* ------------------------------------------------------------------- teams
NewTeam(index, targetTeamSizes) ==
    [id |-> index,
     players |-> <<>>,
     formation |-> [goalkeeper |-> 0, defenders |-> <<>>,
                    midfielders |-> <<>>, forwards |-> <<>>],
     totalRating |-> 0,
     averageRating |-> 0,
     targetSize |-> targetTeamSizes[index]]

\* the capacity test off by one
HasDefenderRoom_Mut(team) == Len(team.formation.defenders) <= DefenderCap

HasDefenderRoom(team) == Len(team.formation.defenders) < DefenderCap

HasMidfielderRoom(team) == Len(team.formation.midfielders) < MidfielderCap

HasForwardRoom(team) == Len(team.formation.forwards) < ForwardCap

\* the size test passing a team that has just reached its target size
TeamIsFull_MutGreater(team) == Len(team.players) > team.targetSize

\* the size test left out
TeamIsFull_Mut(team) == FALSE

\* team.players.length >= team.targetSize
TeamIsFull(team) == Len(team.players) >= team.targetSize

LineCodes(line) ==
    CASE line = "defender" -> DefenderCodes
      [] line = "midfielder" -> MidfielderCodes
      [] line = "forward" -> ForwardCodes

\* the first code of the line the player holds, in the line's order of codes
getBestPositionForFormationLine_Mut(p, formationLine) ==
    IF formationLine = "goalkeeper" THEN "GK"
    ELSE LET availablePositions == Filter(LineCodes(formationLine), Range(p.positions))
         IN  IF Includes(availablePositions, p.preferredPosition)
             THEN p.preferredPosition
             ELSE IF availablePositions # <<>> THEN availablePositions[1]
                  ELSE LineCodes(formationLine)[1]

getBestPositionForFormationLine(p, formationLine) ==
    IF formationLine = "goalkeeper" THEN "GK"
    ELSE LET availablePositions == Filter(p.positions, Range(LineCodes(formationLine)))
         IN  IF Includes(availablePositions, p.preferredPosition)
             THEN p.preferredPosition
             ELSE IF availablePositions # <<>> THEN availablePositions[1]
                  ELSE LineCodes(formationLine)[1]

\* the flexible branch taking the first line with room, as phase 3 does
Phase2Line_Mut(entry, p, team) ==
    IF entry.priority = "defender" /\ HasDefenderRoom(team) THEN "defender"
    ELSE IF entry.priority = "midfielder" /\ HasMidfielderRoom(team) THEN "midfielder"
    ELSE IF entry.priority = "forward" /\ HasForwardRoom(team) THEN "forward"
    ELSE IF HasDefenderRoom(team) THEN "defender"
    ELSE IF HasMidfielderRoom(team) THEN "midfielder"
    ELSE IF HasForwardRoom(team) THEN "forward"
    ELSE "none"

\* the line the phase 2 placement code picks for a pool entry in a team
\* that is below its target size, "none" when no branch places the player
Phase2Line(entry, p, team) ==
    IF entry.priority = "defender" /\ HasDefenderRoom(team) THEN "defender"
    ELSE IF entry.priority = "midfielder" /\ HasMidfielderRoom(team) THEN "midfielder"
    ELSE IF entry.priority = "forward" /\ HasForwardRoom(team) THEN "forward"
    ELSE IF HasDefenderRoom(team) /\ CanPlay(p, DefenderCodes) THEN "defender"
    ELSE IF HasMidfielderRoom(team) /\ CanPlay(p, MidfielderCodes) THEN "midfielder"
    ELSE IF HasForwardRoom(team) /\ CanPlay(p, ForwardCodes) THEN "forward"
    ELSE "none"

\* the line the phase 3 code picks in a team, "none" when all lines are full
Phase3Line(team) ==
    IF HasDefenderRoom(team) THEN "defender"
    ELSE IF HasMidfielderRoom(team) THEN "midfielder"
    ELSE IF HasForwardRoom(team) THEN "forward"
    ELSE "none"

\* a player pushed to the formation line only, not to team.players
PushToLine_Mut(team, line, ref) ==
    LET f == team.formation
        g == CASE line = "defender" -> [f EXCEPT !.defenders = Append(@, ref)]
               [] line = "midfielder" -> [f EXCEPT !.midfielders = Append(@, ref)]
               [] line = "forward" -> [f EXCEPT !.forwards = Append(@, ref)]
    IN  [team EXCEPT !.formation = g]

\* formation[line].push(player); team.players.push(player)
PushToLine(team, line, ref) ==
    LET f == team.formation
        g == CASE line = "defender" -> [f EXCEPT !.defenders = Append(@, ref)]
               [] line = "midfielder" -> [f EXCEPT !.midfielders = Append(@, ref)]
               [] line = "forward" -> [f EXCEPT !.forwards = Append(@, ref)]
    IN  [team EXCEPT !.formation = g, !.players = Append(@, ref)]

\* getTeamSize: the filled formation slots of a team
getTeamSize(team) ==
    LET slots == <<team.formation.goalkeeper>> \o team.formation.defenders
                     \o team.formation.midfielders \o team.formation.forwards
    IN  Len(Filter(slots, Range(slots) \ {0}))

\* updateTeamsDisplay: the players listed under Substitutes,
\* team.players.slice(11) when team.players.length > 11
Substitutes(team) ==
    IF Len(team.players) > 11
    THEN SubSeq(team.players, 12, Len(team.players))
    ELSE <<>>

\* the clamp without the change of direction
Advance_Mut(cur, dir, numT) ==
    IF cur + dir >= numT THEN [currentTeam |-> numT - 1, direction |-> dir]
    ELSE IF cur + dir < 0 THEN [currentTeam |-> 0, direction |-> dir]
    ELSE [currentTeam |-> cur + dir, direction |-> dir]

\* currentTeam += direction, clamped at both ends with the direction flipped
Advance(cur, dir, numT) ==
    IF cur + dir >= numT THEN [currentTeam |-> numT - 1, direction |-> -1]
    ELSE IF cur + dir < 0 THEN [currentTeam |-> 0, direction |-> 1]
    ELSE [currentTeam |-> cur + dir, direction |-> dir]

\* ------------------------------------------------------------ initial state
\* the teams of an earlier generation; regenerateTeams reads only their number
EarlierTeams(k) == [i \in 1..k |-> NewTeam(i, [j \in 1..k |-> 0])]

\* the player lists the runs start from: 1..MaxPlayers players with pairwise
\* distinct ids (addPlayer: Date.now()), listed by kind, at most KindCap[k]
\* of kind k
PlayerLists ==
    UNION {{kinds \in [1..n -> 1..Len(PlayerKinds)] :
                /\ \A i \in 1..n, j \in 1..n : i < j => kinds[i] <= kinds[j]
                /\ \A k \in 1..Len(PlayerKinds) :
                       Cardinality({i \in 1..n : kinds[i] = k}) <= KindCap[k]}
           : n \in 1..MaxPlayers}

InitEngineLocals ==
    /\ pc = "idle"
    /\ caller = "none"
    /\ numTeams = 0
    /\ teams = <<>>
    /\ sortedPlayers = <<>>
    /\ assignedPlayers = {}
    /\ currentTeam = 0
    /\ direction = 1
    /\ preferredGKs = {}
    /\ alternativeGKs = {}
    /\ teamOrder = {}
    /\ assignmentPool = {}
    /\ item = NoItem
    /\ attempts = 0
    /\ assigned = FALSE
    /\ finalRemainingPlayers = {}

\* a player list, a team count and either no teams yet (Generate enabled) or
\* the teams of an earlier generation (Generate disabled, Regenerate shown)
Init ==
    /\ \E kinds \in PlayerLists :
        /\ players = [r \in DOMAIN kinds |-> NewPlayer(r, PlayerKinds[kinds[r]])]
        /\ appPlayers = [r \in DOMAIN kinds |-> r]
    /\ teamCount \in 1..MaxTeams
    /\ playerSelection = "all"
    /\ \/ /\ appTeams = <<>>
          /\ generateBtnDisabled = FALSE
          /\ lastGenerationPlayerCount = 0
       \/ /\ Len(appPlayers) <= MaxRegenPlayers
          /\ appTeams = EarlierTeams(teamCount)
          /\ generateBtnDisabled = TRUE
          /\ lastGenerationPlayerCount = Len(appPlayers)
    /\ InitEngineLocals
    /\ call = NoCall

\* ----------------------------------------------------------------- engine
\* getSelectedPlayers
getSelectedPlayers == Filter(appPlayers, {r \in Range(appPlayers) : players[r].selected})

RatingKey(heap, refs) ==
    [r \in refs |-> getPlayerOverallRating(heap[r]) + Adjustment(heap[r])]

\* createBalancedTeamsWithSizeControl up to the first iteration of phase 1:
\* teams, sortedPlayers, the snake cursor, the goalkeeper lists, teamOrder
BeginRun(who, numT, targetTeamSizes, sourcePlayersArray, heap) ==
    LET sorted == SortDescFrom(<<>>, sourcePlayersArray,
                               RatingKey(heap, Range(sourcePlayersArray)))
        allGKCapablePlayers == {r \in Range(sorted) : Includes(heap[r].positions, "GK")}
    IN  /\ players' = heap
        /\ caller' = who
        /\ numTeams' = numT
        /\ teams' = [i \in 1..numT |-> NewTeam(i, targetTeamSizes)]
        /\ sortedPlayers' = sorted
        /\ assignedPlayers' = {}
        /\ currentTeam' \in 0..(numT - 1)
        /\ direction' \in {1, -1}
        /\ preferredGKs' = {r \in allGKCapablePlayers : heap[r].preferredPosition = "GK"}
        /\ alternativeGKs' = {r \in allGKCapablePlayers : heap[r].preferredPosition # "GK"}
        /\ teamOrder' = 0..(numT - 1)
        /\ assignmentPool' = {}
        /\ finalRemainingPlayers' = {}
        /\ item' = NoItem
        /\ attempts' = 0
        /\ assigned' = FALSE
        /\ pc' = "phase1"

\* generateTeams, up to the first iteration of phase 1
GenerateTeams ==
    /\ pc = "idle"
    /\ ~generateBtnDisabled
    /\ LET playersToUse == IF playerSelection = "selected"
                           THEN getSelectedPlayers ELSE appPlayers
           totalPlayers == Len(playersToUse)
       IN  IF totalPlayers = 0
           THEN UNCHANGED vars
           ELSE /\ BeginRun("generateTeams", teamCount,
                            InlineTeamSizes(totalPlayers, teamCount),
                            playersToUse, players)
                /\ UNCHANGED <<appVars, call>>

\* the objects addPlayer creates have the references 1..IdSpace
IdSpace == 2 * MaxPlayers

\* references no object of the heap has: the first of the two blocks above
\* 1..IdSpace that is empty (the copies of the regeneration before the
\* running one fill at most one block)
FreeBase(heap) ==
    IF \A r \in DOMAIN heap : r <= IdSpace \/ r > 2 * IdSpace
    THEN IdSpace ELSE 2 * IdSpace

\* applyRandomization: a shuffled copy of the array, each entry a fresh
\* object {...player, tempRatingAdjustment}; the copy of players[r] gets
\* the reference base + r
CopyRef(base, r) == base + r

applyRandomization(playersToUse, order, jitter) ==
    LET base == FreeBase(players)
    IN  [heap |-> [r \in (DOMAIN players) \cup {CopyRef(base, x) : x \in Range(playersToUse)} |->
                      IF r \in DOMAIN players THEN players[r]
                      ELSE [players[r - base] EXCEPT
                                !.tempRatingAdjustment = <<jitter[r - base]>>]],
         array |-> [i \in 1..Len(order) |-> CopyRef(base, order[i])]]

\* regenerateTeams, up to the first iteration of phase 1
RegenerateTeams ==
    /\ pc = "idle"
    /\ Len(appTeams) > 0
    /\ LET playersToUse == IF playerSelection = "selected"
                           THEN getSelectedPlayers ELSE appPlayers
           numT == Len(appTeams)
       IN  IF playerSelection = "selected" /\ Len(playersToUse) = 0
           THEN UNCHANGED vars
           ELSE \E order \in Shuffles(playersToUse) :
                \E jitter \in [Range(playersToUse) -> Jitters] :
                    LET randomized == applyRandomization(playersToUse, order, jitter)
                    IN  /\ BeginRun("regenerateTeams", numT,
                                    calculateTeamSizes(Len(playersToUse), numT),
                                    randomized.array, randomized.heap)
                        /\ UNCHANGED <<appVars, call>>

\* preferred and alternative goalkeepers shuffled together
Phase1Assign_MutOneList ==
    /\ pc = "phase1"
    /\ teamOrder # {}
    /\ preferredGKs \cup alternativeGKs # {}
    /\ \E r \in preferredGKs \cup alternativeGKs :
       \E teamIndex \in teamOrder :
        /\ players' = [players EXCEPT ![r].assignedPosition = "GK"]
        /\ teams' = [teams EXCEPT ![teamIndex + 1].formation.goalkeeper = r,
                                  ![teamIndex + 1].players = Append(@, r)]
        /\ assignedPlayers' = assignedPlayers \cup {players[r].id}
        /\ preferredGKs' = preferredGKs \ {r}
        /\ alternativeGKs' = alternativeGKs \ {r}
        /\ teamOrder' = teamOrder \ {teamIndex}
    /\ UNCHANGED <<appVars, pc, caller, numTeams, sortedPlayers, currentTeam,
                   direction, assignmentPool, tryVars, finalRemainingPlayers, call>>

\* 'GK' written to preferredPosition in place of assignedPosition
Phase1Assign_MutPreferred ==
    /\ pc = "phase1"
    /\ teamOrder # {}
    /\ preferredGKs \cup alternativeGKs # {}
    /\ \E r \in (IF preferredGKs # {} THEN preferredGKs ELSE alternativeGKs) :
       \E teamIndex \in teamOrder :
        /\ players' = [players EXCEPT ![r].preferredPosition = "GK"]
        /\ teams' = [teams EXCEPT ![teamIndex + 1].formation.goalkeeper = r,
                                  ![teamIndex + 1].players = Append(@, r)]
        /\ assignedPlayers' = assignedPlayers \cup {players[r].id}
        /\ preferredGKs' = preferredGKs \ {r}
        /\ alternativeGKs' = alternativeGKs \ {r}
        /\ teamOrder' = teamOrder \ {teamIndex}
    /\ UNCHANGED <<appVars, pc, caller, numTeams, sortedPlayers, currentTeam,
                   direction, assignmentPool, tryVars, finalRemainingPlayers, call>>

\* a random team index per goalkeeper in place of the shuffled team order
Phase1Assign_Mut ==
    /\ pc = "phase1"
    /\ teamOrder # {}
    /\ preferredGKs \cup alternativeGKs # {}
    /\ \E r \in (IF preferredGKs # {} THEN preferredGKs ELSE alternativeGKs) :
       \E teamIndex \in teamOrder :
        /\ players' = [players EXCEPT ![r].assignedPosition = "GK"]
        /\ teams' = [teams EXCEPT ![teamIndex + 1].formation.goalkeeper = r,
                                  ![teamIndex + 1].players = Append(@, r)]
        /\ assignedPlayers' = assignedPlayers \cup {players[r].id}
        /\ preferredGKs' = preferredGKs \ {r}
        /\ alternativeGKs' = alternativeGKs \ {r}
        /\ teamOrder' = teamOrder
    /\ UNCHANGED <<appVars, pc, caller, numTeams, sortedPlayers, currentTeam,
                   direction, assignmentPool, tryVars, finalRemainingPlayers, call>>

\* one iteration of the goalkeeper loop: the next entry of shuffledGKs
\* (preferred goalkeepers first) goes to the next entry of teamOrder
Phase1Assign ==
    /\ pc = "phase1"
    /\ teamOrder # {}
    /\ preferredGKs \cup alternativeGKs # {}
    /\ \E r \in (IF preferredGKs # {} THEN preferredGKs ELSE alternativeGKs) :
       \E teamIndex \in teamOrder :
        /\ players' = [players EXCEPT ![r].assignedPosition = "GK"]
        /\ teams' = [teams EXCEPT ![teamIndex + 1].formation.goalkeeper = r,
                                  ![teamIndex + 1].players = Append(@, r)]
        /\ assignedPlayers' = assignedPlayers \cup {players[r].id}
        /\ preferredGKs' = preferredGKs \ {r}
        /\ alternativeGKs' = alternativeGKs \ {r}
        /\ teamOrder' = teamOrder \ {teamIndex}
    /\ UNCHANGED <<appVars, pc, caller, numTeams, sortedPlayers, currentTeam,
                   direction, assignmentPool, tryVars, finalRemainingPlayers, call>>

\* end of the goalkeeper loop; position groups and the assignment pool
Phase2Setup ==
    /\ pc = "phase1"
    /\ teamOrder = {} \/ preferredGKs \cup alternativeGKs = {}
    /\ LET remainingPlayers == {r \in Range(sortedPlayers) : players[r].id \notin assignedPlayers}
           defenders == {r \in remainingPlayers : CanPlay(players[r], DefenderCodes)}
           midfielders == {r \in remainingPlayers : CanPlay(players[r], MidfielderCodes)}
           forwards == {r \in remainingPlayers : CanPlay(players[r], ForwardCodes)}
       IN  \E D \in FirstOfShuffled(defenders, Min2(Cardinality(defenders), numTeams * DefenderCap)) :
           \E M \in FirstOfShuffled(midfielders, Min2(Cardinality(midfielders), numTeams * MidfielderCap)) :
           \E F \in FirstOfShuffled(forwards, Min2(Cardinality(forwards), numTeams * ForwardCap)) :
               assignmentPool' = {[player |-> r, priority |-> "defender"] : r \in D}
                                 \cup {[player |-> r, priority |-> "midfielder"] : r \in M}
                                 \cup {[player |-> r, priority |-> "forward"] : r \in F}
    /\ preferredGKs' = {}
    /\ alternativeGKs' = {}
    /\ teamOrder' = {}
    /\ pc' = "phase2"
    /\ UNCHANGED <<appVars, players, caller, numTeams, teams, sortedPlayers,
                   assignedPlayers, currentTeam, direction, tryVars,
                   finalRemainingPlayers, call>>

\* the check for an already assigned player left out
Phase2Pick_Mut ==
    /\ pc = "phase2"
    /\ assignmentPool # {}
    /\ \E entry \in assignmentPool :
        /\ assignmentPool' = assignmentPool \ {entry}
        /\ IF FALSE
           THEN UNCHANGED <<pc, tryVars>>
           ELSE /\ item' = entry
                /\ attempts' = 0
                /\ assigned' = FALSE
                /\ pc' = "phase2_try"
    /\ UNCHANGED <<appVars, players, caller, numTeams, teams, sortedPlayers,
                   assignedPlayers, currentTeam, direction, gkVars,
                   finalRemainingPlayers, call>>

\* head of the pool loop: the next pool entry; an entry whose player is
\* already assigned is skipped
Phase2Pick ==
    /\ pc = "phase2"
    /\ assignmentPool # {}
    /\ \E entry \in assignmentPool :
        /\ assignmentPool' = assignmentPool \ {entry}
        /\ IF players[entry.player].id \in assignedPlayers
           THEN UNCHANGED <<pc, tryVars>>
           ELSE /\ item' = entry
                /\ attempts' = 0
                /\ assigned' = FALSE
                /\ pc' = "phase2_try"
    /\ UNCHANGED <<appVars, players, caller, numTeams, teams, sortedPlayers,
                   assignedPlayers, currentTeam, direction, gkVars,
                   finalRemainingPlayers, call>>

\* the retry loop without the count of its attempts
Phase2Try_MutNoCount ==
    /\ pc = "phase2_try"
    /\ attempts < numTeams /\ ~assigned
    /\ LET r == item.player
           team == teams[currentTeam + 1]
           line == IF TeamIsFull(team) THEN "none"
                   ELSE Phase2Line(item, players[r], team)
           next == Advance(currentTeam, direction, numTeams)
       IN  IF line = "none"
           THEN /\ currentTeam' = next.currentTeam
                /\ direction' = next.direction
                /\ pc' = "phase2_try"
                /\ UNCHANGED <<item, attempts, assigned>>
                /\ UNCHANGED <<players, teams, assignedPlayers>>
           ELSE /\ players' = [players EXCEPT ![r].assignedPosition =
                                  getBestPositionForFormationLine(players[r], line)]
                /\ teams' = [teams EXCEPT ![currentTeam + 1] = PushToLine(team, line, r)]
                /\ assignedPlayers' = assignedPlayers \cup {players[r].id}
                /\ currentTeam' = next.currentTeam
                /\ direction' = next.direction
                /\ attempts' = 0
                /\ item' = NoItem
                /\ assigned' = FALSE
                /\ pc' = "phase2"
    /\ UNCHANGED <<appVars, caller, numTeams, sortedPlayers, gkVars,
                   assignmentPool, finalRemainingPlayers, call>>

\* one iteration of the while loop of a pool entry; when the loop condition
\* fails afterwards, the cursor step that follows a placement
Phase2Try ==
    /\ pc = "phase2_try"
    /\ attempts < numTeams /\ ~assigned
    /\ LET r == item.player
           team == teams[currentTeam + 1]
           line == IF TeamIsFull(team) THEN "none"
                   ELSE Phase2Line(item, players[r], team)
           next == Advance(currentTeam, direction, numTeams)
       IN  IF line = "none"
           THEN /\ currentTeam' = next.currentTeam
                /\ direction' = next.direction
                /\ IF attempts + 1 < numTeams
                   THEN /\ attempts' = attempts + 1
                        /\ pc' = "phase2_try"
                        /\ UNCHANGED <<item, assigned>>
                   ELSE /\ attempts' = 0
                        /\ item' = NoItem
                        /\ pc' = "phase2"
                        /\ UNCHANGED assigned
                /\ UNCHANGED <<players, teams, assignedPlayers>>
           ELSE /\ players' = [players EXCEPT ![r].assignedPosition =
                                  getBestPositionForFormationLine(players[r], line)]
                /\ teams' = [teams EXCEPT ![currentTeam + 1] = PushToLine(team, line, r)]
                /\ assignedPlayers' = assignedPlayers \cup {players[r].id}
                /\ currentTeam' = next.currentTeam
                /\ direction' = next.direction
                /\ attempts' = 0
                /\ item' = NoItem
                /\ assigned' = FALSE
                /\ pc' = "phase2"
    /\ UNCHANGED <<appVars, caller, numTeams, sortedPlayers, gkVars,
                   assignmentPool, finalRemainingPlayers, call>>

\* the filter of the leftover players without its negation
Phase3Setup_Mut ==
    /\ pc = "phase2"
    /\ assignmentPool = {}
    /\ finalRemainingPlayers' = {r \in Range(sortedPlayers) : players[r].id \in assignedPlayers}
    /\ item' = NoItem
    /\ attempts' = 0
    /\ assigned' = FALSE
    /\ pc' = "phase3"
    /\ UNCHANGED <<appVars, players, caller, numTeams, teams, sortedPlayers,
                   assignedPlayers, currentTeam, direction, gkVars,
                   assignmentPool, call>>

\* end of the pool loop; the players phase 3 has to place
Phase3Setup ==
    /\ pc = "phase2"
    /\ assignmentPool = {}
    /\ finalRemainingPlayers' = {r \in Range(sortedPlayers) : players[r].id \notin assignedPlayers}
    /\ item' = NoItem
    /\ attempts' = 0
    /\ assigned' = FALSE
    /\ pc' = "phase3"
    /\ UNCHANGED <<appVars, players, caller, numTeams, teams, sortedPlayers,
                   assignedPlayers, currentTeam, direction, gkVars,
                   assignmentPool, call>>

\* the teams with space left in the order of the teams array
TeamsWithSpace_MutUnsorted(tms) ==
    LET indices == [i \in 1..Len(tms) |-> i]
    IN  Filter(indices, {i \in 1..Len(tms) : ~TeamIsFull(tms[i])})

\* a team one player short of its target size counted as full
TeamsWithSpace_Mut(tms) ==
    LET indices == [i \in 1..Len(tms) |-> i]
        open == Filter(indices, {i \in 1..Len(tms) :
                                    Len(tms[i].players) < tms[i].targetSize - 1})
    IN  SortAscFrom(<<>>, open, [i \in 1..Len(tms) |-> Len(tms[i].players)])

\* teams.filter(players.length < targetSize).sort(by players.length)
TeamsWithSpace(tms) ==
    LET indices == [i \in 1..Len(tms) |-> i]
        open == Filter(indices, {i \in 1..Len(tms) : ~TeamIsFull(tms[i])})
    IN  SortAscFrom(<<>>, open, [i \in 1..Len(tms) |-> Len(tms[i].players)])

\* first team of the list with room in a formation line, 0 when none has
RECURSIVE FirstWithLine(_, _)
FirstWithLine(tms, order) ==
    IF order = <<>> THEN 0
    ELSE IF Phase3Line(tms[Head(order)]) # "none" THEN Head(order)
         ELSE FirstWithLine(tms, Tail(order))

\* one iteration of the phase 3 loop
Phase3Assign ==
    /\ pc = "phase3"
    /\ finalRemainingPlayers # {}
    /\ \E r \in finalRemainingPlayers :
        LET teamsWithSpace == TeamsWithSpace(teams)
            t == FirstWithLine(teams, teamsWithSpace)
        IN  IF teamsWithSpace = <<>>
            THEN /\ pc' = "stats"
                 /\ UNCHANGED <<teams, assignedPlayers, finalRemainingPlayers>>
            ELSE /\ finalRemainingPlayers' = finalRemainingPlayers \ {r}
                 /\ assignedPlayers' = assignedPlayers \cup {players[r].id}
                 /\ teams' = IF t # 0
                             THEN [teams EXCEPT ![t] = PushToLine(teams[t], Phase3Line(teams[t]), r)]
                             ELSE [teams EXCEPT ![teamsWithSpace[1]].players = Append(@, r)]
                 /\ pc' = "phase3"
    /\ UNCHANGED <<appVars, players, caller, numTeams, sortedPlayers,
                   currentTeam, direction, gkVars, assignmentPool, tryVars, call>>

\* end of the phase 3 loop
Phase3Done ==
    /\ pc = "phase3"
    /\ finalRemainingPlayers = {}
    /\ pc' = "stats"
    /\ UNCHANGED <<appVars, players, caller, numTeams, teams, sortedPlayers,
                   assignedPlayers, currentTeam, direction, gkVars,
                   assignmentPool, tryVars, finalRemainingPlayers, call>>

\* the rating in the assigned role summed in place of the overall rating
TeamStatistics_Mut(team, heap) ==
    LET total == SumSeq([i \in 1..Len(team.players) |->
                            getPlayerRatingForPosition(heap[team.players[i]],
                                heap[team.players[i]].assignedPosition)])
    IN  [team EXCEPT !.totalRating = total,
                     !.averageRating = IF Len(team.players) > 0
                                       THEN ToFixed1(total, Len(team.players))
                                       ELSE 0]

\* team statistics of one team, computed on the heap with the jitter removed
TeamStatistics(team, heap) ==
    LET total == SumSeq([i \in 1..Len(team.players) |->
                            getPlayerOverallRating(heap[team.players[i]])])
    IN  [team EXCEPT !.totalRating = total,
                     !.averageRating = IF Len(team.players) > 0
                                       THEN ToFixed1(total, Len(team.players))
                                       ELSE 0]

\* the new teams pushed to app.teams in place of replacing it
FinishRun_MutAppend ==
    /\ pc = "stats"
    /\ LET inTeams == UNION {Range(teams[i].players) : i \in 1..Len(teams)}
           heap == [r \in DOMAIN players |->
                       IF r \in inTeams
                       THEN [players[r] EXCEPT !.tempRatingAdjustment = <<>>]
                       ELSE players[r]]
           result == [i \in 1..Len(teams) |-> TeamStatistics(teams[i], heap)]
       IN  /\ players' = heap
           /\ teams' = result
           /\ appTeams' = appTeams \o result
    /\ generateBtnDisabled' = IF caller = "generateTeams" THEN TRUE ELSE generateBtnDisabled
    /\ lastGenerationPlayerCount' = IF caller = "generateTeams" THEN Len(sortedPlayers)
                                    ELSE lastGenerationPlayerCount
    /\ pc' = "done"
    /\ UNCHANGED <<appPlayers, teamCount, playerSelection, caller, numTeams,
                   sortedPlayers, assignedPlayers, currentTeam, direction,
                   gkVars, assignmentPool, tryVars, finalRemainingPlayers, call>>

\* the statistics computed without deleting tempRatingAdjustment
FinishRun_Mut ==
    /\ pc = "stats"
    /\ LET inTeams == UNION {Range(teams[i].players) : i \in 1..Len(teams)}
           heap == players
           result == [i \in 1..Len(teams) |-> TeamStatistics(teams[i], heap)]
       IN  /\ players' = heap
           /\ teams' = result
           /\ appTeams' = result
    /\ generateBtnDisabled' = IF caller = "generateTeams" THEN TRUE ELSE generateBtnDisabled
    /\ lastGenerationPlayerCount' = IF caller = "generateTeams" THEN Len(sortedPlayers)
                                    ELSE lastGenerationPlayerCount
    /\ pc' = "done"
    /\ UNCHANGED <<appPlayers, teamCount, playerSelection, caller, numTeams,
                   sortedPlayers, assignedPlayers, currentTeam, direction,
                   gkVars, assignmentPool, tryVars, finalRemainingPlayers, call>>

\* the statistics loop, the return, and the caller's update of app.teams
\* and of the Generate button
FinishRun ==
    /\ pc = "stats"
    /\ LET inTeams == UNION {Range(teams[i].players) : i \in 1..Len(teams)}
           heap == [r \in DOMAIN players |->
                       IF r \in inTeams
                       THEN [players[r] EXCEPT !.tempRatingAdjustment = <<>>]
                       ELSE players[r]]
           result == [i \in 1..Len(teams) |-> TeamStatistics(teams[i], heap)]
       IN  /\ players' = heap
           /\ teams' = result
           /\ appTeams' = result
    /\ generateBtnDisabled' = IF caller = "generateTeams" THEN TRUE ELSE generateBtnDisabled
    /\ lastGenerationPlayerCount' = IF caller = "generateTeams" THEN Len(sortedPlayers)
                                    ELSE lastGenerationPlayerCount
    /\ pc' = "done"
    /\ UNCHANGED <<appPlayers, teamCount, playerSelection, caller, numTeams,
                   sortedPlayers, assignedPlayers, currentTeam, direction,
                   gkVars, assignmentPool, tryVars, finalRemainingPlayers, call>>

Next ==
    \/ GenerateTeams
    \/ RegenerateTeams
    \/ Phase1Assign
    \/ Phase2Setup
    \/ Phase2Pick
    \/ Phase2Try
    \/ Phase3Setup
    \/ Phase3Assign
    \/ Phase3Done
    \/ FinishRun

Spec == Init /\ [][Next]_vars

\* createBalancedTeamsWithSizeControl is synchronous code without suspension
\* points: a run that has a next iteration takes it
SpecLive == Init /\ [][Next]_vars /\ WF_vars(Next)

\* ------------------------------------------------------------ application
\* the longest player list of the application runs
MaxAppPlayers == MaxPlayers - 4

\* the kinds of player added in the application runs
AppKinds == {1, 5}

\* the objects a handler can still reach: app.players and the players of
\* app.teams; everything else is garbage
Reachable(appP, appT) ==
    Range(appP) \cup UNION {Range(appT[i].players) : i \in 1..Len(appT)}

Collect(heap, appP, appT) == [r \in Reachable(appP, appT) |-> heap[r]]

\* Date.now() of addPlayer: a number no object in reach has as its id (ids
\* are only compared for equality, so the smallest such number stands for it)
FreshId ==
    CHOOSE n \in 1..IdSpace :
        /\ \A r \in DOMAIN players : players[r].id # n
        /\ \A m \in 1..(n - 1) : \E r \in DOMAIN players : players[r].id = m

\* the teams cleared on a change of settings without enableGenerateButton
checkTeamSettingsChange_Mut(heap, appP, appT, count, selection, disabled) ==
    IF Len(appT) > 0
    THEN LET currentPlayersToUse ==
                 IF selection = "selected"
                 THEN Filter(appP, {r \in Range(appP) : heap[r].selected})
                 ELSE appP
         IN  IF \/ Len(appT) # count
                \/ /\ lastGenerationPlayerCount # 0
                   /\ lastGenerationPlayerCount # Len(currentPlayersToUse)
             THEN [appTeams |-> <<>>, generateBtnDisabled |-> disabled]
             ELSE [appTeams |-> appT, generateBtnDisabled |-> disabled]
    ELSE [appTeams |-> appT, generateBtnDisabled |-> FALSE]

\* checkTeamSettingsChange on the given application state: app.teams and the
\* disabled flag of the Generate button afterwards
checkTeamSettingsChange(heap, appP, appT, count, selection, disabled) ==
    IF Len(appT) > 0
    THEN LET currentPlayersToUse ==
                 IF selection = "selected"
                 THEN Filter(appP, {r \in Range(appP) : heap[r].selected})
                 ELSE appP
         IN  IF \/ Len(appT) # count
                \/ /\ lastGenerationPlayerCount # 0
                   /\ lastGenerationPlayerCount # Len(currentPlayersToUse)
             THEN [appTeams |-> <<>>, generateBtnDisabled |-> FALSE]
             ELSE [appTeams |-> appT, generateBtnDisabled |-> disabled]
    ELSE [appTeams |-> appT, generateBtnDisabled |-> FALSE]

engineVars == <<pc, caller, numTeams, teams, sortedPlayers, assignedPlayers,
                currentTeam, direction, gkVars, assignmentPool, tryVars,
                finalRemainingPlayers>>

\* addPlayer with a valid form
AddPlayer ==
    /\ pc = "idle"
    /\ Len(appPlayers) < MaxAppPlayers
    /\ \E kind \in AppKinds :
        LET id == FreshId
            heap == [r \in (DOMAIN players) \cup {id} |->
                        IF r = id THEN NewPlayer(id, PlayerKinds[kind]) ELSE players[r]]
            appP == Append(appPlayers, id)
            after == checkTeamSettingsChange(heap, appP, appTeams, teamCount,
                                             playerSelection, generateBtnDisabled)
        IN  /\ appPlayers' = appP
            /\ appTeams' = after.appTeams
            /\ generateBtnDisabled' = after.generateBtnDisabled
            /\ players' = Collect(heap, appP, after.appTeams)
    /\ UNCHANGED <<teamCount, playerSelection, lastGenerationPlayerCount,
                   engineVars, call>>

\* removePlayer(playerId) from the delete button of a player card
RemovePlayer ==
    /\ pc = "idle"
    /\ \E x \in Range(appPlayers) :
        LET playerId == players[x].id
            appP == Filter(appPlayers, {r \in Range(appPlayers) : players[r].id # playerId})
        IN  /\ appPlayers' = appP
            /\ players' = Collect(players, appP, appTeams)
    /\ UNCHANGED <<appTeams, teamCount, playerSelection, generateBtnDisabled,
                   lastGenerationPlayerCount, engineVars, call>>

\* togglePlayerSelection(playerId) from the checkbox of a player card
TogglePlayerSelection ==
    /\ pc = "idle"
    /\ \E x \in Range(appPlayers) :
          players' = [players EXCEPT ![x].selected = ~@]
    /\ UNCHANGED <<appVars, engineVars, call>>

selectAllPlayers ==
    /\ pc = "idle"
    /\ players' = [r \in DOMAIN players |->
                      IF r \in Range(appPlayers)
                      THEN [players[r] EXCEPT !.selected = TRUE] ELSE players[r]]
    /\ UNCHANGED <<appVars, engineVars, call>>

deselectAllPlayers ==
    /\ pc = "idle"
    /\ players' = [r \in DOMAIN players |->
                      IF r \in Range(appPlayers)
                      THEN [players[r] EXCEPT !.selected = FALSE] ELSE players[r]]
    /\ UNCHANGED <<appVars, engineVars, call>>

\* clearPlayers, the confirmation accepted
clearPlayers ==
    /\ pc = "idle"
    /\ Len(appPlayers) # 0
    /\ appPlayers' = <<>>
    /\ appTeams' = <<>>
    /\ generateBtnDisabled' = FALSE
    /\ players' = Collect(players, <<>>, <<>>)
    /\ UNCHANGED <<teamCount, playerSelection, lastGenerationPlayerCount,
                   engineVars, call>>

\* the change listener of the teamCount control
TeamCountChanged ==
    /\ pc = "idle"
    /\ \E count \in (1..MaxTeams) \ {teamCount} :
        LET after == checkTeamSettingsChange(players, appPlayers, appTeams, count,
                                             playerSelection, generateBtnDisabled)
        IN  /\ teamCount' = count
            /\ appTeams' = after.appTeams
            /\ generateBtnDisabled' = after.generateBtnDisabled
            /\ players' = Collect(players, appPlayers, after.appTeams)
    /\ UNCHANGED <<appPlayers, playerSelection, lastGenerationPlayerCount,
                   engineVars, call>>

\* the change listener of the playerSelection control
PlayerSelectionChanged ==
    /\ pc = "idle"
    /\ \E selection \in {"all", "selected"} \ {playerSelection} :
        LET after == checkTeamSettingsChange(players, appPlayers, appTeams, teamCount,
                                             selection, generateBtnDisabled)
        IN  /\ playerSelection' = selection
            /\ appTeams' = after.appTeams
            /\ generateBtnDisabled' = after.generateBtnDisabled
            /\ players' = Collect(players, appPlayers, after.appTeams)
    /\ UNCHANGED <<appPlayers, teamCount, lastGenerationPlayerCount,
                   engineVars, call>>

\* the handler has returned: its locals are gone and with them the objects
\* only they referred to
Return ==
    /\ pc = "done"
    /\ pc' = "idle"
    /\ caller' = "none"
    /\ numTeams' = 0
    /\ teams' = <<>>
    /\ sortedPlayers' = <<>>
    /\ assignedPlayers' = {}
    /\ currentTeam' = 0
    /\ direction' = 1
    /\ players' = Collect(players, appPlayers, appTeams)
    /\ UNCHANGED <<appVars, gkVars, assignmentPool, tryVars,
                   finalRemainingPlayers, call>>

\* the application state the constructor leaves
NoPlayersYet ==
    /\ players = <<>>
    /\ appPlayers = <<>>
    /\ appTeams = <<>>
    /\ teamCount = 1
    /\ playerSelection = "all"
    /\ generateBtnDisabled = FALSE
    /\ lastGenerationPlayerCount = 0

\* the application as constructed, nothing in localStorage
InitApp ==
    /\ NoPlayersYet
    /\ InitEngineLocals
    /\ call = NoCall

NextApp ==
    \/ AddPlayer
    \/ RemovePlayer
    \/ TogglePlayerSelection
    \/ selectAllPlayers
    \/ deselectAllPlayers
    \/ clearPlayers
    \/ TeamCountChanged
    \/ PlayerSelectionChanged
    \/ GenerateTeams
    \/ RegenerateTeams
    \/ Phase1Assign
    \/ Phase2Setup
    \/ Phase2Pick
    \/ Phase2Try
    \/ Phase3Setup
    \/ Phase3Assign
    \/ Phase3Done
    \/ FinishRun
    \/ Return

SpecApp == InitApp /\ [][NextApp]_vars

\* ------------------------------------------- runs with a full forward line
\* seven players in two teams (target sizes 4 and 3): one goalkeeper, the
\* others forwards, one of them also a midfielder, in the second list one
\* defender; a team of four can fill its forward line (3) during phase 2
LineupLists == {<<1, 6, 6, 6, 6, 6, 7>>, <<1, 5, 6, 6, 6, 6, 7>>}

InitLines ==
    /\ \E kinds \in LineupLists :
        /\ players = [r \in DOMAIN kinds |-> NewPlayer(r, PlayerKinds[kinds[r]])]
        /\ appPlayers = [r \in DOMAIN kinds |-> r]
    /\ teamCount = 2
    /\ playerSelection = "all"
    /\ appTeams = <<>>
    /\ generateBtnDisabled = FALSE
    /\ lastGenerationPlayerCount = 0
    /\ InitEngineLocals
    /\ call = NoCall

NextLines ==
    \/ GenerateTeams
    \/ Phase1Assign
    \/ Phase2Setup
    \/ Phase2Pick
    \/ Phase2Try
    \/ Phase3Setup
    \/ Phase3Assign
    \/ Phase3Done
    \/ FinishRun

SpecLines == InitLines /\ [][NextLines]_vars

\* ------------------------------------------------ runs with substitutes
\* generateTeams on 13 players in one team and on 27 players in two teams
\* (target sizes 14 and 13): goalkeepers, centre backs, central midfielders
\* and strikers, each of one position.  There is one centre back more than
\* the pool takes, one midfielder short of two full lines, and more
\* goalkeepers than teams, so that the sweep finds a line with room for its
\* first player and full lines for the others.
SweepRuns ==
    { [kinds |-> <<1, 1, 5, 5, 5, 5, 5, 8, 8, 8, 6, 6, 6>>, teamCount |-> 1],
      [kinds |-> <<1, 1, 1, 1, 1, 5, 5, 5, 5, 5, 5, 5, 5, 5,
                   8, 8, 8, 8, 8, 8, 8, 6, 6, 6, 6, 6, 6>>, teamCount |-> 2] }

InitSweep ==
    /\ \E run \in SweepRuns :
        /\ players = [r \in DOMAIN run.kinds |-> NewPlayer(r, PlayerKinds[run.kinds[r]])]
        /\ appPlayers = [r \in DOMAIN run.kinds |-> r]
        /\ teamCount = run.teamCount
    /\ playerSelection = "all"
    /\ appTeams = <<>>
    /\ generateBtnDisabled = FALSE
    /\ lastGenerationPlayerCount = 0
    /\ InitEngineLocals
    /\ call = NoCall

Least(S) == CHOOSE x \in S : \A y \in S : x <= y

LineRank(line) ==
    CASE line = "defender" -> 1
      [] line = "midfielder" -> 2
      [] line = "forward" -> 3

FirstEntry(pool) ==
    CHOOSE e \in pool :
        \A f \in pool : \/ e.player < f.player
                        \/ e.player = f.player /\ LineRank(e.priority) <= LineRank(f.priority)

\* the iterations of the goalkeeper loop when shuffleArray leaves the
\* goalkeepers and the team order as they are
Phase1AssignInOrder ==
    /\ Phase1Assign
    /\ teamOrder' = teamOrder \ {Least(teamOrder)}
    /\ preferredGKs' \cup alternativeGKs' =
          (preferredGKs \cup alternativeGKs)
              \ {Least(IF preferredGKs # {} THEN preferredGKs ELSE alternativeGKs)}

\* the iterations of the pool loop when shuffleArray leaves the pool in the
\* order of the player list
Phase2PickInOrder ==
    /\ Phase2Pick
    /\ assignmentPool' = assignmentPool \ {FirstEntry(assignmentPool)}

\* the runs in which the shuffles of phase 1 and of the pool return the
\* identity; the pool caps, the snake cursor's start and the order of the
\* leftover sweep are free
NextSweep ==
    \/ GenerateTeams
    \/ Phase1AssignInOrder
    \/ Phase2Setup
    \/ Phase2PickInOrder
    \/ Phase2Try
    \/ Phase3Setup
    \/ Phase3Assign
    \/ Phase3Done
    \/ FinishRun

SpecSweep == InitSweep /\ [][NextSweep]_vars

\* ------------------------------------------------- direct calls: team sizes
\* a player count and a team count, neither computation run yet
InitSizes ==
    /\ NoPlayersYet
    /\ InitEngineLocals
    /\ \E t \in 0..MaxTotal, n \in 1..MaxSizeTeams :
          call = [kind |-> "sizes", totalPlayers |-> t, numTeams |-> n,
                  inline |-> <<>>, calculated |-> <<>>]

\* the size computation of generateTeams
RunInlineTeamSizes ==
    /\ call.kind = "sizes"
    /\ call.inline = <<>>
    /\ call' = [call EXCEPT !.inline = InlineTeamSizes(call.totalPlayers, call.numTeams)]
    /\ UNCHANGED <<appVars, players, pc, caller, numTeams, teams, sortedPlayers,
                   assignedPlayers, currentTeam, direction, gkVars,
                   assignmentPool, tryVars, finalRemainingPlayers>>

\* the size computation of regenerateTeams
RunCalculateTeamSizes ==
    /\ call.kind = "sizes"
    /\ call.calculated = <<>>
    /\ call' = [call EXCEPT !.calculated = calculateTeamSizes(call.totalPlayers, call.numTeams)]
    /\ UNCHANGED <<appVars, players, pc, caller, numTeams, teams, sortedPlayers,
                   assignedPlayers, currentTeam, direction, gkVars,
                   assignmentPool, tryVars, finalRemainingPlayers>>

NextSizes ==
    \/ RunInlineTeamSizes
    \/ RunCalculateTeamSizes

SpecSizes == InitSizes /\ [][NextSizes]_vars

\* ---------------------------------------------------- direct calls: ratings
\* a result is held as <<value>>, <<>> before the call
GkOveralls == {1, 45, 59, 60, 61, 90, 99}

OutfieldOveralls == {1, 70, 78, 99}

RatingRoles == {"GK", "CB", "CM", "ST", "ATT"}

\* player records of every stat-block shape, the malformed one without any
\* stats included; the rating functions read only the stat blocks and
\* preferredPosition
RatingPlayers ==
    {NewPlayer(1, [positions |-> <<pref>>, preferredPosition |-> pref,
                   gkStats |-> g, outfieldStats |-> o]) :
        pref \in {"GK", "CB", "ST"},
        g \in {NoStats} \cup {Stats(x) : x \in GkOveralls},
        o \in {NoStats} \cup {Stats(x) : x \in OutfieldOveralls}}

InitRating ==
    /\ NoPlayersYet
    /\ InitEngineLocals
    /\ \E p \in RatingPlayers, role \in RatingRoles :
          call = [kind |-> "rating", player |-> p, role |-> role,
                  overall |-> <<>>, forPosition |-> <<>>]

RunGetPlayerOverallRating ==
    /\ call.kind = "rating"
    /\ call.overall = <<>>
    /\ call' = [call EXCEPT !.overall = <<getPlayerOverallRating(call.player)>>]
    /\ UNCHANGED <<appVars, players, pc, caller, numTeams, teams, sortedPlayers,
                   assignedPlayers, currentTeam, direction, gkVars,
                   assignmentPool, tryVars, finalRemainingPlayers>>

RunGetPlayerRatingForPosition ==
    /\ call.kind = "rating"
    /\ call.forPosition = <<>>
    /\ call' = [call EXCEPT !.forPosition = <<getPlayerRatingForPosition(call.player, call.role)>>]
    /\ UNCHANGED <<appVars, players, pc, caller, numTeams, teams, sortedPlayers,
                   assignedPlayers, currentTeam, direction, gkVars,
                   assignmentPool, tryVars, finalRemainingPlayers>>

NextRating ==
    \/ RunGetPlayerOverallRating
    \/ RunGetPlayerRatingForPosition

SpecRating == InitRating /\ [][NextRating]_vars

\* ------------------------------------------------------------------ claims
MinOf(s) == CHOOSE x \in Range(s) : \A y \in Range(s) : x <= y

MaxOf(s) == CHOOSE x \in Range(s) : \A y \in Range(s) : x >= y

SizeFair(sizes, total, numT) ==
    /\ Len(sizes) = numT
    /\ \A i \in 1..Len(sizes) : sizes[i] \in Nat
    /\ SumSeq(sizes) = total
    /\ MaxOf(sizes) - MinOf(sizes) <= 1

\* C1: for every totalPlayers >= 0 and numTeams >= 1 the size planner returns
\* exactly numTeams non-negative integers that sum to totalPlayers and whose
\* maximum and minimum differ by at most 1.
C1_SizeFairness ==
    call.kind = "sizes" =>
        /\ call.calculated # <<>> =>
              SizeFair(call.calculated, call.totalPlayers, call.numTeams)
        /\ call.inline # <<>> =>
              SizeFair(call.inline, call.totalPlayers, call.numTeams)

\* more teams than players: some teams get size 0
C1_Witness ==
    /\ call.kind = "sizes"
    /\ call.calculated # <<>>
    /\ call.inline # <<>>
    /\ 0 < call.totalPlayers
    /\ call.totalPlayers < call.numTeams

\* C2: both size computations give team index i (0-based) the size
\* floor(totalPlayers / numTeams) + (1 if i < totalPlayers mod numTeams else 0);
\* they agree on every input, the larger teams are the lowest-indexed ones,
\* and 23 players in 3 teams give [8, 8, 7].
C2_SizeComputationsAgree ==
    (call.kind = "sizes" /\ call.inline # <<>> /\ call.calculated # <<>>) =>
        /\ call.inline = call.calculated
        /\ Len(call.inline) = call.numTeams
        /\ \A i \in 0..(call.numTeams - 1) :
              call.inline[i + 1] = (call.totalPlayers \div call.numTeams)
                  + (IF i < call.totalPlayers % call.numTeams THEN 1 ELSE 0)
        /\ \A i \in 1..call.numTeams, j \in 1..call.numTeams :
              i < j => call.inline[i] >= call.inline[j]
        /\ (call.totalPlayers = 23 /\ call.numTeams = 3) => call.inline = <<8, 8, 7>>

C2_Witness ==
    /\ call.kind = "sizes"
    /\ call.totalPlayers = 23
    /\ call.numTeams = 3
    /\ call.inline = <<8, 8, 7>>
    /\ call.calculated = <<8, 8, 7>>

\* C8: getPlayerOverallRating returns gkStats.overall for a player with both
\* stat blocks who prefers GK, outfieldStats.overall for a player with both
\* stat blocks and any other preferred position, the overall of the only stat
\* block when one exists, and 75 when none exists.
C8_OverallRating ==
    (call.kind = "rating" /\ call.overall # <<>>) =>
        LET p == call.player
            both == p.gkStats.present /\ p.outfieldStats.present
        IN  /\ (both /\ p.preferredPosition = "GK") => call.overall[1] = p.gkStats.overall
            /\ (both /\ p.preferredPosition # "GK") => call.overall[1] = p.outfieldStats.overall
            /\ (p.gkStats.present /\ ~p.outfieldStats.present) => call.overall[1] = p.gkStats.overall
            /\ (~p.gkStats.present /\ p.outfieldStats.present) => call.overall[1] = p.outfieldStats.overall
            /\ (~p.gkStats.present /\ ~p.outfieldStats.present) => call.overall[1] = 75

\* the dual-role player preferring GK, gk overall 90, outfield overall 78
C8_Witness ==
    /\ call.kind = "rating"
    /\ call.player.preferredPosition = "GK"
    /\ call.player.gkStats = Stats(90)
    /\ call.player.outfieldStats = Stats(78)
    /\ call.overall = <<90>>

\* C9: getPlayerRatingForPosition(player, role) returns gkStats.overall for
\* role GK when gkStats exists; for every other role outfieldStats.overall
\* whenever outfieldStats exists; max(gkStats.overall - 20, 40) only for a
\* player with gkStats and no outfieldStats in a non-GK role; 75 without stats.
C9_RatingForPosition ==
    (call.kind = "rating" /\ call.forPosition # <<>>) =>
        LET p == call.player
            role == call.role
        IN  /\ (role = "GK" /\ p.gkStats.present) => call.forPosition[1] = p.gkStats.overall
            /\ (role # "GK" /\ p.outfieldStats.present) =>
                  call.forPosition[1] = p.outfieldStats.overall
            /\ (role # "GK" /\ p.gkStats.present /\ ~p.outfieldStats.present) =>
                  /\ call.forPosition[1] = Max2(p.gkStats.overall - 20, 40)
                  /\ call.forPosition[1] >= 40
            /\ (~p.gkStats.present /\ ~p.outfieldStats.present) => call.forPosition[1] = 75
            /\ (p.outfieldStats.present /\ ~(role = "GK" /\ p.gkStats.present)) =>
                  call.forPosition[1] = p.outfieldStats.overall

\* the dual-role player (gk 90, outfield 78) rated as a forward
C9_Witness ==
    /\ call.kind = "rating"
    /\ call.role = "ATT"
    /\ call.player.gkStats = Stats(90)
    /\ call.player.outfieldStats = Stats(78)
    /\ call.forPosition = <<78>>

\* ---------------------------------------------------- claims on the engine
Done == pc = "done"

TeamIndices == 1..Len(teams)

\* the (team, position) slots of all players lists
PlayerSlots == UNION {{<<i, j>> : j \in 1..Len(teams[i].players)} : i \in TeamIndices}

IdAt(s) == players[teams[s[1]].players[s[2]]].id

\* C3: in every run over players with pairwise distinct ids each player id
\* appears at most once in the union of all teams' players lists, although a
\* multi-position player can be in the phase 2 pool several times.
C3_NoDoubleAssignment ==
    \A s \in PlayerSlots, t \in PlayerSlots : s # t => IdAt(s) # IdAt(t)

\* a pool entry is still to be visited whose player has been placed already
C3_Witness ==
    /\ pc = "phase2"
    /\ \E entry \in assignmentPool :
          /\ players[entry.player].id \in assignedPlayers
          /\ \E s \in PlayerSlots : IdAt(s) = players[entry.player].id
          /\ players[entry.player].assignedPosition # "GK"

GoalkeeperCapable == {r \in Range(sortedPlayers) : Includes(players[r].positions, "GK")}

TeamsWithGoalkeeper == {i \in TeamIndices : teams[i].formation.goalkeeper # 0}

\* C4: after a run exactly min(numTeams, number of input players whose
\* positions include GK) teams have a goalkeeper; a goalkeeper slot, once
\* written, is never written again during the run; it holds a player whose
\* positions include GK; no player is the goalkeeper of two teams.
C4_GoalkeeperSlots ==
    [][ /\ \A i \in TeamIndices :
              (pc # "idle" /\ teams[i].formation.goalkeeper # 0) =>
                  teams'[i].formation.goalkeeper = teams[i].formation.goalkeeper
        /\ Done' =>
              /\ Cardinality(TeamsWithGoalkeeper') =
                     Min2(numTeams', Cardinality(GoalkeeperCapable'))
              /\ \A i \in TeamsWithGoalkeeper' :
                     Includes(players'[teams'[i].formation.goalkeeper].positions, "GK")
              /\ \A i \in TeamsWithGoalkeeper', j \in TeamsWithGoalkeeper' :
                     i # j => teams'[i].formation.goalkeeper # teams'[j].formation.goalkeeper
      ]_vars

\* more goalkeeper-capable players than teams: every team has a goalkeeper
\* and a goalkeeper-capable player plays elsewhere
C4_Witness ==
    /\ Done
    /\ Cardinality(GoalkeeperCapable) > numTeams
    /\ numTeams > 1
    /\ TeamsWithGoalkeeper = TeamIndices

C6_SizeCapRespected ==
    Done => \A i \in TeamIndices : Len(teams[i].players) <= teams[i].targetSize

RatingSum(team) ==
    SumSeq([j \in 1..Len(team.players) |-> getPlayerOverallRating(players[team.players[j]])])

\* C7: after a run every team's totalRating is the sum of
\* getPlayerOverallRating(p) over the players of team.players (unpenalized,
\* whatever line the player is in) and averageRating is totalRating /
\* players.length rounded to one decimal (held in tenths), 0 for an empty team.
C7_RatingAggregation ==
    Done => \A i \in TeamIndices :
        LET team == teams[i]
            count == Len(team.players)
        IN  /\ team.totalRating = RatingSum(team)
            /\ count = 0 => team.averageRating = 0
            /\ count > 0 =>
                  /\ 2 * (team.averageRating * count - 10 * team.totalRating) <= count
                  /\ 2 * (10 * team.totalRating - team.averageRating * count) <= count

\* a team whose average needs rounding and that fields a player whose rating
\* in the assigned role differs from the overall rating
C7_Witness ==
    /\ Done
    /\ \E i \in TeamIndices :
          /\ Len(teams[i].players) > 0
          /\ (10 * teams[i].totalRating) % Len(teams[i].players) # 0
          /\ \E j \in 1..Len(teams[i].players) :
                LET p == players[teams[i].players[j]]
                IN  getPlayerRatingForPosition(p, p.assignedPosition) # getPlayerOverallRating(p)

\* C10: after any generateTeams or regenerateTeams run the numbers of players
\* of any two output teams differ by at most 1.
C10_TeamSizesBalanced ==
    Done => \A i \in TeamIndices, j \in TeamIndices :
                Len(teams[i].players) - Len(teams[j].players) <= 1

\* a regeneration that ends with teams of unequal size
C10_Witness ==
    /\ Done
    /\ caller = "regenerateTeams"
    /\ \E i \in TeamIndices, j \in TeamIndices :
          Len(teams[i].players) = Len(teams[j].players) + 1

\* the slots of all players lists that hold the player with this id
SlotsOf(id) == {s \in PlayerSlots : IdAt(s) = id}

\* the players of a team that are in a players list without having been
\* given a position by phase 1 or phase 2 of the run
SweptIn(i) == {j \in 1..Len(teams[i].players) :
                  players[teams[i].players[j]].assignedPosition = Undefined}

\* C13: with target sizes from the size planner and distinct ids every input
\* player ends the run in exactly one team; the leftover sweep never reaches
\* its 'all teams full' exit with a player still unassigned, so players cut
\* from the pool by the per-line caps and players the snake draft gave up on
\* are not dropped.
C13_NoPlayerDropped ==
    /\ (pc = "phase3" /\ finalRemainingPlayers # {}) => TeamsWithSpace(teams) # <<>>
    /\ Done => \A r \in Range(sortedPlayers) : Cardinality(SlotsOf(players[r].id)) = 1

\* one team, five defenders-only candidates: the pool takes four, the fifth
\* is placed by the leftover sweep
C13_Witness ==
    /\ Done
    /\ numTeams = 1
    /\ Len(sortedPlayers) = 5
    /\ Len(teams[1].formation.defenders) = 4
    /\ \E j \in SweptIn(1) : Includes(teams[1].formation.midfielders, teams[1].players[j])

LineOf(team, line) ==
    CASE line = "defender" -> team.formation.defenders
      [] line = "midfielder" -> team.formation.midfielders
      [] line = "forward" -> team.formation.forwards

Lines == {"defender", "midfielder", "forward"}

\* C14: after a generateTeams run every player in a goalkeeper slot has
\* assignedPosition 'GK' and every player in the defenders / midfielders /
\* forwards line has an assignedPosition of that line's code set; no
\* undefined value survives on a placed player.
C14_AssignedPositionWritten ==
    (Done /\ caller = "generateTeams") =>
        \A i \in TeamIndices :
            /\ teams[i].formation.goalkeeper # 0 =>
                  players[teams[i].formation.goalkeeper].assignedPosition = "GK"
            /\ \A line \in Lines : \A k \in 1..Len(LineOf(teams[i], line)) :
                  players[LineOf(teams[i], line)[k]].assignedPosition
                      \in Range(LineCodes(line))

\* a team below its target size with room in a line the player can play in
CouldTake(team, p) ==
    /\ Len(team.players) < team.targetSize
    /\ \/ CanPlay(p, DefenderCodes) /\ Len(team.formation.defenders) < 4
       \/ CanPlay(p, MidfielderCodes) /\ Len(team.formation.midfielders) < 4
       \/ CanPlay(p, ForwardCodes) /\ Len(team.formation.forwards) < 3

\* C15: phase 2 leaves a pooled player unassigned (for phase 3) only if at
\* that moment no team has both players.length < targetSize and spare
\* capacity in a formation line the player is eligible for: the numTeams
\* attempts along the clamped snake cursor examine every team.
C15_RetryExaminesEveryTeam ==
    [][ (pc = "phase2_try" /\ pc' = "phase2"
            /\ players[item.player].id \notin assignedPlayers')
        => \A i \in TeamIndices : ~CouldTake(teams[i], players[item.player])
      ]_vars

\* C16: when numTeams <= number of players and the sizes come from the size
\* planner, every team ends the run with players.length equal to targetSize.
C16_TeamsReachTargetSize ==
    (Done /\ numTeams <= Len(sortedPlayers)) =>
        \A i \in TeamIndices : Len(teams[i].players) = teams[i].targetSize

\* two teams of sizes 3 and 2, one of them completed by the leftover sweep
C16_Witness ==
    /\ Done
    /\ numTeams = 2
    /\ Len(teams[1].players) = 3
    /\ Len(teams[2].players) = 2
    /\ SweptIn(1) \cup SweptIn(2) # {}

\* C17: phase 2 and phase 3 add a player to a team only if the team's
\* players.length is strictly below its targetSize at that moment; they never
\* add a player to a team whose targetSize is 0.
C17_AddOnlyBelowTargetSize ==
    [][ (pc = "phase2" \/ pc = "phase2_try" \/ pc = "phase3") =>
            (\A i \in TeamIndices :
                Len(teams'[i].players) > Len(teams[i].players) =>
                    (Len(teams[i].players) < teams[i].targetSize
                        /\ teams[i].targetSize > 0))
      ]_vars

\* more teams than players: the size-0 team stayed empty and the sweep placed
\* a player in another team
C17_Witness ==
    /\ Done
    /\ \E i \in TeamIndices, j \in TeamIndices :
          /\ teams[i].targetSize = 0
          /\ teams[i].players = <<>>
          /\ SweptIn(j) # {}

\* C18: a goalkeeper-capable player whose preferredPosition is not GK is in a
\* goalkeeper slot only if every goalkeeper-capable player whose
\* preferredPosition is GK has been given a goalkeeper slot in the same run.
C18_PreferredGoalkeepersFirst ==
    \A i \in TeamsWithGoalkeeper :
        players[teams[i].formation.goalkeeper].preferredPosition # "GK" =>
            \A r \in GoalkeeperCapable :
                players[r].preferredPosition = "GK" =>
                    \E j \in TeamsWithGoalkeeper : teams[j].formation.goalkeeper = r

\* one team keeps a preferred goalkeeper, the other an alternative one
C18_Witness ==
    \E i \in TeamsWithGoalkeeper, j \in TeamsWithGoalkeeper :
        /\ players[teams[i].formation.goalkeeper].preferredPosition = "GK"
        /\ players[teams[j].formation.goalkeeper].preferredPosition # "GK"

\* C19: throughout a run 0 <= currentTeam <= numTeams - 1 and direction is
\* +1 or -1; every advance adds direction to currentTeam, stepping past the
\* last index clamps to it and sets direction to -1, stepping below 0 clamps
\* to 0 and sets direction to +1 (an end team is visited twice in a row, also
\* when numTeams = 1).
C19_SnakeCursor ==
    [][ /\ pc' # "idle" =>
              /\ 0 <= currentTeam'
              /\ currentTeam' <= numTeams' - 1
              /\ direction' \in {1, -1}
        /\ pc = "phase2_try" =>
              IF currentTeam + direction > numTeams - 1
              THEN currentTeam' = numTeams - 1 /\ direction' = -1
              ELSE IF currentTeam + direction < 0
                   THEN currentTeam' = 0 /\ direction' = 1
                   ELSE currentTeam' = currentTeam + direction /\ direction' = direction
        /\ pc \in {"phase1", "phase2", "phase3", "stats"} =>
              currentTeam' = currentTeam /\ direction' = direction
      ]_vars

\* the first outfield player went to the last team and the cursor is still
\* there, now pointing back
C19_Witness ==
    /\ pc = "phase2"
    /\ numTeams = 2
    /\ currentTeam = 1
    /\ direction = -1
    /\ Len(teams[2].players) = 1
    /\ teams[2].formation.goalkeeper = 0
    /\ teams[1].players = <<>>
    /\ teams[1].targetSize > 0

\* line.length below the line's capacity
Spare(team, line) ==
    CASE line = "defender" -> Len(team.formation.defenders) < 4
      [] line = "midfielder" -> Len(team.formation.midfielders) < 4
      [] line = "forward" -> Len(team.formation.forwards) < 3

LineOrder == <<"defender", "midfielder", "forward">>

\* C20: every player placed by phase 2 into a formation line holds a
\* position of that line's code set; the line is the one named by the pool
\* entry's priority if it has spare capacity in the current team, otherwise
\* the first of defenders, midfielders, forwards that has spare capacity and
\* for which the player is eligible.
C20_Phase2Line ==
    [][ (pc = "phase2_try"
            /\ Len(teams'[currentTeam + 1].players) > Len(teams[currentTeam + 1].players))
        => LET team == teams[currentTeam + 1]
               after == teams'[currentTeam + 1]
               p == players[item.player]
           IN  \E k \in 1..3 :
                   /\ LineOf(after, LineOrder[k]) = Append(LineOf(team, LineOrder[k]), item.player)
                   /\ \A m \in (1..3) \ {k} : LineOf(after, LineOrder[m]) = LineOf(team, LineOrder[m])
                   /\ CanPlay(p, LineCodes(LineOrder[k]))
                   /\ Spare(team, LineOrder[k])
                   /\ Spare(team, item.priority) => LineOrder[k] = item.priority
                   /\ ~Spare(team, item.priority) =>
                          \A m \in 1..(k - 1) :
                              ~(Spare(team, LineOrder[m]) /\ CanPlay(p, LineCodes(LineOrder[m])))
      ]_vars

\* the forward line of the team of four is full and the forward who is also a
\* midfielder was put in midfield on the forward entry (the midfielder entry
\* is still in the pool)
C20_Witness ==
    /\ pc = "phase2"
    /\ \E i \in TeamIndices :
          /\ Len(teams[i].formation.forwards) = 3
          /\ \E k \in 1..Len(teams[i].formation.midfielders) :
                LET r == teams[i].formation.midfielders[k]
                IN  /\ players[r].positions = <<"ST", "CM">>
                    /\ [player |-> r, priority |-> "midfielder"] \in assignmentPool

\* ------------------------------------------- claims on the application runs
\* C11: over every sequence of application operations (add player, remove
\* player, toggle / deselect selection, clear players, generateTeams,
\* regenerateTeams) createBalancedTeamsWithSizeControl is never invoked with
\* an empty player list: the callers pre-validate and refuse to run.
C11_EngineNeverRunOnEmptyList ==
    pc # "idle" => sortedPlayers # <<>>

\* the player records reachable from app.teams (players lists and formation
\* slots) and from app.players
OutputRecords ==
    Range(appPlayers)
        \cup UNION {Range(appTeams[i].players) : i \in 1..Len(appTeams)}
        \cup UNION {Range(appTeams[i].formation.defenders)
                        \cup Range(appTeams[i].formation.midfielders)
                        \cup Range(appTeams[i].formation.forwards)
                        \cup ({appTeams[i].formation.goalkeeper} \ {0})
                    : i \in 1..Len(appTeams)}

\* C12: after any sequence of generateTeams and regenerateTeams calls no
\* player record reachable from the output teams and no record of the
\* application's player list carries tempRatingAdjustment; every
\* generateTeams call sorts with jitter zero.
C12_JitterStripped ==
    /\ \A r \in OutputRecords : players[r].tempRatingAdjustment = <<>>
    /\ (pc # "idle" /\ caller = "generateTeams") =>
           \A r \in Range(sortedPlayers) : Adjustment(players[r]) = 0

\* a regeneration has returned teams of copies, which carried a jitter value
\* during the run, after an earlier generateTeams run on the player objects
C12_Witness ==
    /\ pc = "done"
    /\ caller = "regenerateTeams"
    /\ lastGenerationPlayerCount > 0
    /\ \E i \in 1..Len(appTeams) : \E k \in 1..Len(appTeams[i].players) :
          /\ appTeams[i].players[k] > IdSpace
          /\ appTeams[i].players[k] \notin Range(appPlayers)

\* ------------------------------------------------ claims on the placements
\* C21: for every player placed by phase 2 into line L, assignedPosition is
\* the player's preferredPosition when that is one of the player's positions
\* in L's code set, otherwise the first of the player's positions (in the
\* player's own order) that is in L's code set; the line's default code is
\* never the result, so assignedPosition is one of the player's own positions.
C21_AssignedPositionOfPhase2 ==
    [][ (pc = "phase2_try"
            /\ Len(teams'[currentTeam + 1].players) > Len(teams[currentTeam + 1].players))
        => \A L \in Lines :
              LineOf(teams'[currentTeam + 1], L) # LineOf(teams[currentTeam + 1], L)
              => LET p == players[item.player]
                     pos == players'[item.player].assignedPosition
                     inLine(k) == Includes(LineCodes(L), p.positions[k])
                 IN  /\ Includes(p.positions, pos)
                     /\ Includes(LineCodes(L), pos)
                     /\ IF Includes(p.positions, p.preferredPosition)
                           /\ Includes(LineCodes(L), p.preferredPosition)
                        THEN pos = p.preferredPosition
                        ELSE \E k \in 1..Len(p.positions) :
                                /\ pos = p.positions[k]
                                /\ inLine(k)
                                /\ \A m \in 1..(k - 1) : ~inLine(m)
      ]_vars

\* the midfielder who is also a left back and a centre back stands in a
\* defender line as left back
C21_Witness ==
    /\ pc = "phase2"
    /\ \E i \in TeamIndices :
          \E k \in 1..Len(teams[i].formation.defenders) :
              LET p == players[teams[i].formation.defenders[k]]
              IN  /\ p.positions = <<"CM", "LB", "CB">>
                  /\ p.preferredPosition = "CM"
                  /\ p.assignedPosition = "LB"

\* the formation slots of a team that are filled, as references
Slotted(team) ==
    (IF team.formation.goalkeeper = 0 THEN {} ELSE {team.formation.goalkeeper})
        \cup Range(team.formation.defenders)
        \cup Range(team.formation.midfielders)
        \cup Range(team.formation.forwards)

\* the indices of team.players whose player is in no formation slot
Unslotted(team) == {j \in 1..Len(team.players) : team.players[j] \notin Slotted(team)}

HasBudget(team) == Len(team.players) < team.targetSize

\* C22: in the leftover sweep a player is appended to a team's players list
\* without entering any formation line only when every team that still has
\* size budget has all three lines at capacity (4/4/3); the player then goes
\* to the team with the fewest current players among the teams with budget.
C22_SubstituteOnlyWhenLinesFull ==
    [][ pc = "phase3"
        => \A t \in TeamIndices :
              (/\ teams'[t].players # teams[t].players
               /\ \A L \in Lines : LineOf(teams'[t], L) = LineOf(teams[t], L))
              => /\ \A i \in TeamIndices :
                        HasBudget(teams[i]) => \A L \in Lines : ~Spare(teams[i], L)
                 /\ HasBudget(teams[t])
                 /\ \A i \in TeamIndices :
                        HasBudget(teams[i])
                        => Len(teams[t].players) <= Len(teams[i].players)
      ]_vars

\* two teams with full lines and size budget left: the first substitute went
\* to the first team, the next one is due to the second, smaller team
C22_Witness ==
    /\ pc = "phase3"
    /\ finalRemainingPlayers # {}
    /\ numTeams = 2
    /\ Cardinality(Unslotted(teams[1])) = 1
    /\ Unslotted(teams[2]) = {}
    /\ HasBudget(teams[1]) /\ HasBudget(teams[2])
    /\ Len(teams[2].players) < Len(teams[1].players)
    /\ \A L \in Lines : ~Spare(teams[1], L) /\ ~Spare(teams[2], L)

\* the formation slots of a team in one list: goalkeeper, then the lines
SlotList(team) ==
    (IF team.formation.goalkeeper = 0 THEN <<>> ELSE <<team.formation.goalkeeper>>)
        \o team.formation.defenders \o team.formation.midfielders
        \o team.formation.forwards

\* C23: in every output team the formation and the players list are
\* consistent: the goalkeeper (if any) and every member of defenders,
\* midfielders and forwards appears exactly once in team.players, no player
\* occupies two formation slots, and the number of players of team.players
\* that occupy no slot is players.length minus getTeamSize(team).
C23_FormationConsistent ==
    Done =>
        \A i \in TeamIndices :
            LET team == teams[i]
                slots == SlotList(team)
            IN  /\ \A k \in 1..Len(slots) :
                       Cardinality({j \in 1..Len(team.players) :
                                       players[team.players[j]].id = players[slots[k]].id}) = 1
                /\ \A k \in 1..Len(slots), m \in 1..Len(slots) :
                       k # m => players[slots[k]].id # players[slots[m]].id
                /\ Cardinality(Unslotted(team)) = Len(team.players) - getTeamSize(team)

\* an output team with a goalkeeper, three full lines and two substitutes
C23_Witness ==
    /\ Done
    /\ \E i \in TeamIndices :
          /\ teams[i].formation.goalkeeper # 0
          /\ getTeamSize(teams[i]) = 12
          /\ Cardinality(Unslotted(teams[i])) = 2

\* --------------------------------------- claims on the application handlers
\* C25: regenerateTeams preserves the number of teams: with no teams it
\* starts no assignment and leaves the teams empty; otherwise it runs the
\* engine for as many teams as exist and replaces app.teams by exactly that
\* many freshly built teams, whatever the team-count control shows.
C25_RegeneratePreservesTeamCount ==
    [][ (caller' = "regenerateTeams" /\ pc' # "idle")
        => /\ Len(appTeams) > 0
           /\ numTeams' = Len(appTeams)
           /\ Len(appTeams') = Len(appTeams)
           /\ (pc' = "done" => appTeams' = teams' /\ Len(teams') = Len(appTeams))
      ]_vars

\* a regeneration has replaced two teams by two teams built from its copies
C25_Witness ==
    /\ pc = "done"
    /\ caller = "regenerateTeams"
    /\ Len(appTeams) = 2
    /\ appTeams = teams
    /\ \E i \in 1..Len(appTeams) : appTeams[i].players # <<>>
    /\ \A i \in 1..Len(appTeams) :
           \A j \in 1..Len(appTeams[i].players) : appTeams[i].players[j] > IdSpace

\* C26: with a team count of at least 1, after any sequence of add player,
\* clear players, team-count or selection-mode change, generateTeams and
\* regenerateTeams, the Generate button is disabled exactly when the teams
\* list is non-empty: generating disables it and every operation that
\* empties the teams re-enables it.
C26_GenerateDisabledIffTeams ==
    generateBtnDisabled <=> Len(appTeams) > 0

\* teams were generated and then emptied by a change of settings; the
\* Generate button is enabled again
C26_Witness ==
    /\ pc = "idle"
    /\ lastGenerationPlayerCount > 0
    /\ appPlayers # <<>>
    /\ appTeams = <<>>
    /\ ~generateBtnDisabled

\* C27: after any sequence of add player, remove player, clear players,
\* generateTeams and regenerateTeams, every player id in the application's
\* current teams is the id of a player currently in the player list: no
\* generated team keeps showing a removed player.
C27_TeamsShowOnlyListedPlayers ==
    \A i \in 1..Len(appTeams) :
        \A j \in 1..Len(appTeams[i].players) :
            \E r \in Range(appPlayers) :
                players[r].id = players[appTeams[i].players[j]].id

\* C28: an assignment run changes no field of any input player record other
\* than assignedPosition and tempRatingAdjustment: id, positions,
\* preferredPosition, selected and both stat blocks are the same after the
\* run as before it.
C28_RunKeepsPlayerFields ==
    [][ \A r \in DOMAIN players :
           /\ r \in DOMAIN players'
           /\ players'[r].id = players[r].id
           /\ players'[r].positions = players[r].positions
           /\ players'[r].preferredPosition = players[r].preferredPosition
           /\ players'[r].selected = players[r].selected
           /\ players'[r].gkStats = players[r].gkStats
           /\ players'[r].outfieldStats = players[r].outfieldStats
      ]_vars

\* a finished generateTeams run that put a player who prefers to play
\* striker in goal and wrote the assigned position of a defender
C28_Witness ==
    /\ pc = "done"
    /\ caller = "generateTeams"
    /\ \E r \in Range(sortedPlayers) :
          /\ players[r].preferredPosition = "ST"
          /\ players[r].assignedPosition = "GK"
    /\ \E r \in Range(sortedPlayers) : players[r].assignedPosition = "CB"

\* --------------------------------------------------- claims on termination
\* C29: for every finite player list and every numTeams >= 1 the assignment
\* run terminates, and for each pool entry the phase-2 retry loop ends after
\* at most numTeams cursor advances, whatever the random choices are: the
\* loop runs only while attempts < numTeams and each iteration that stays in
\* it advances the cursor once and counts one attempt.
C29_RunTerminates ==
    /\ <>Done
    /\ [](pc = "phase2_try" => attempts < numTeams)
    /\ [][ (pc = "phase2_try" /\ pc' = "phase2_try")
           => /\ attempts' = attempts + 1
              /\ item' = item
              /\ <<currentTeam', direction'>> =
                    <<Advance(currentTeam, direction, numTeams).currentTeam,
                      Advance(currentTeam, direction, numTeams).direction>>
         ]_vars

\* a run of two teams has ended phase 2 with a pool entry given up after the
\* second attempt: its player is left to the sweep
C29_Witness ==
    /\ pc = "phase3"
    /\ numTeams = 2
    /\ \E r \in finalRemainingPlayers : CanPlay(players[r], DefenderCodes)

\* ------------------------------------------------- claims on the rendering
\* C30: the players rendered in a team's Substitutes section (team.players
\* from index 11 on) are exactly the players of team.players that occupy no
\* formation slot: every unslotted player is rendered as a substitute and no
\* goalkeeper or line player is.
C30_SubstitutesAreUnslotted ==
    Done =>
        \A i \in TeamIndices :
            Range(Substitutes(teams[i])) =
                {teams[i].players[j] : j \in Unslotted(teams[i])}

====
